---- MODULE Spec2Model ----
\* Model of the struct-tag validation utility of src/main.go: the validator
\* registry (ValidatorFactory), the tag resolver (GetValidatorFromTag), the rule
\* variants' Validate methods and the record walker (ValidateUser).
\*
\* A Go string is a sequence of one-character strings, so that strings.Split,
\* strings.Join, fmt.Sscanf and len(str) are computed character by character.
EXTENDS Integers, Sequences, FiniteSets, TLC

VARIABLES
    ValidatorFactory, \* the registry: rule name -> constructor
    call,             \* the entry point the client calls
    pc,               \* position of the call
    user,             \* ValidateUser: the record, a sequence of [tag, value] fields
    i,                \* ValidateUser: the loop index (1-based)
    errs,             \* ValidateUser: the error list
    valid,            \* ValidateUser: the local `valid` of the last Validate call
    err,              \* ValidateUser: the local `err` of the last call
    lookups,          \* number of registry lookups made by the call
    calls,            \* number of Validate invocations made by the call
    tag,              \* GetValidatorFromTag called directly: its argument
    value,            \* Validate called directly: its argument
    result,           \* what GetValidatorFromTag returned: [validator, err]
    outcome           \* what Validate returned: [valid, err, panic]

vars == <<ValidatorFactory, call, pc, user, i, errs, valid, err, lookups, calls,
          tag, value, result, outcome>>

-----------------------------------------------------------------------------
\* Bounds of the model.

\* Records walked by ValidateUser have at most MaxFields fields drawn from the
\* field pool (the record of main, with 4 fields, is always included).
MaxFields == 2

\* Bounds a, b written into `min=a,max=b` clauses range over -MaxArg..MaxArg
\* (and the bounds the User type uses).
MaxArg == 2

-----------------------------------------------------------------------------
\* Program constants.

DefaultMaxValue == 127
DefaultMinValue == -128

\* var tagName is only the key under which reflect finds a field's annotation;
\* a field of the model carries its annotation directly.

\* var pattern (the text itself is matched by MatchString below)
pattern == "\\A[\\w+\\-.]+@[a-z\\d\\-]+(\\.[a-z]+)*\\.[a-z]+\\z"

-----------------------------------------------------------------------------
\* Characters.

Digits == <<"0", "1", "2", "3", "4", "5", "6", "7", "8", "9">>
DigitSet == {Digits[k] : k \in 1..10}
LowerSet == {"a", "b", "c", "d", "e", "f", "g", "h", "i", "j", "k", "l", "m",
             "n", "o", "p", "q", "r", "s", "t", "u", "v", "w", "x", "y", "z"}
UpperSet == {"A", "B", "C", "D", "E", "F", "G", "H", "I", "J", "K", "L", "M",
             "N", "O", "P", "Q", "R", "S", "T", "U", "V", "W", "X", "Y", "Z"}

DigitVal(c) == (CHOOSE k \in 1..10 : Digits[k] = c) - 1

-----------------------------------------------------------------------------
\* strings.Split(s, sep) for a one-character sep: the pieces between the
\* separators; a string without separator (the empty string too) is one piece.
RECURSIVE Split(_, _)
Split(s, sep) ==
    IF \E k \in 1..Len(s) : s[k] = sep
    THEN LET m == CHOOSE k \in 1..Len(s) :
                      s[k] = sep /\ \A j \in 1..(k - 1) : s[j] # sep
         IN  <<SubSeq(s, 1, m - 1)>> \o Split(SubSeq(s, m + 1, Len(s)), sep)
    ELSE <<s>>

\* strings.Join(a, sep)
RECURSIVE Join(_, _)
Join(a, sep) ==
    IF Len(a) = 0 THEN <<>>
    ELSE IF Len(a) = 1 THEN a[1]
    ELSE a[1] \o <<sep>> \o Join(Tail(a), sep)

-----------------------------------------------------------------------------
\* fmt.Sscanf(str, "min=%d,max=%d", &min, &max).

\* The format: literal characters and the verb %d.
Format == <<"m", "i", "n", "=", "%d", ",", "m", "a", "x", "=", "%d">>

\* ss.SkipSpace: the position after the blanks at pos.
RECURSIVE SkipSpace(_, _)
SkipSpace(str, pos) ==
    IF pos <= Len(str) /\ str[pos] = " " THEN SkipSpace(str, pos + 1) ELSE pos

\* ss.scanNumber: the position after the run of digit characters at pos
\* (for %d the digit characters are 0-9 and the underscore).
RECURSIVE scanNumber(_, _)
scanNumber(str, pos) ==
    IF pos <= Len(str) /\ str[pos] \in DigitSet \cup {"_"}
    THEN scanNumber(str, pos + 1) ELSE pos

\* strconv.ParseInt(tok, 10, 64) of an unsigned digit token without underscore.
RECURSIVE ParseDigits(_)
ParseDigits(tok) ==
    IF Len(tok) = 0 THEN 0
    ELSE 10 * ParseDigits(SubSeq(tok, 1, Len(tok) - 1)) + DigitVal(tok[Len(tok)])

\* ss.scanInt for the verb %d at pos: skips blanks, takes an optional sign and
\* a run of digits; fails at end of input, without digit, or when ParseInt
\* rejects the token (an underscore in base 10).
scanInt(str, pos) ==
    LET p0   == SkipSpace(str, pos)
        neg  == p0 <= Len(str) /\ str[p0] = "-"
        p1   == IF p0 <= Len(str) /\ str[p0] \in {"+", "-"} THEN p0 + 1 ELSE p0
        p2   == scanNumber(str, p1)
        tok  == SubSeq(str, p1, p2 - 1)
    IN  IF p0 > Len(str) \/ p2 = p1 \/ \E k \in 1..Len(tok) : tok[k] = "_"
        THEN [ok |-> FALSE, val |-> 0, next |-> p2]
        ELSE [ok |-> TRUE,
              val |-> IF neg THEN 0 - ParseDigits(tok) ELSE ParseDigits(tok),
              next |-> p2]

\* ss.doScanf: walks the format over the input from pos; `stored` are the
\* operands assigned so far. The first mismatch (or the end of the input) ends
\* the scan with an error the caller ignores; what was stored stays stored.
RECURSIVE doScanf(_, _, _, _)
doScanf(str, pos, fi, stored) ==
    IF fi > Len(Format) THEN stored
    ELSE IF Format[fi] = "%d"
         THEN LET r == scanInt(str, pos)
              IN  IF r.ok
                  THEN doScanf(str, r.next, fi + 1, Append(stored, r.val))
                  ELSE stored
         ELSE IF pos <= Len(str) /\ str[pos] = Format[fi]
              THEN doScanf(str, pos + 1, fi + 1, stored)
              ELSE stored

\* Mutant: the operands are assigned only when the whole format matched.
SscanfAllOrNothing(str) ==
    LET stored == doScanf(str, 1, 1, <<>>)
    IN  IF Len(stored) = 2
        THEN [min |-> stored[1], max |-> stored[2]]
        ELSE [min |-> 0, max |-> 0]

\* The values of min and max after the Sscanf call: both start as the zero
\* value of `var min, max int`.
Sscanf(str) ==
    LET stored == doScanf(str, 1, 1, <<>>)
    IN  [min |-> IF Len(stored) >= 1 THEN stored[1] ELSE 0,
         max |-> IF Len(stored) >= 2 THEN stored[2] ELSE 0]

-----------------------------------------------------------------------------
\* Values, errors, options and validators.

\* A boxed value (interface{}): an int or a string.
IntValue(n) == [kind |-> "int", n |-> n, s |-> <<>>]
StringValue(s) == [kind |-> "string", n |-> 0, s |-> s]

\* An error: its message, the name it quotes (%s) and the integers it echoes (%d).
Error(msg, name, args) == [msg |-> msg, name |-> name, args |-> args]
nil == Error("nil", <<>>, <<>>)

\* The zero value &Option{} a constructor starts from.
Option == [min |-> 0, max |-> 0, pattern |-> ""]

\* The OptionFuncs: each sets one field of the option bag.
WithMin(min, option) == [option EXCEPT !.min = min]
WithMax(max, option) == [option EXCEPT !.max = max]
WithPattern(p, option) == [option EXCEPT !.pattern = p]

\* for _, opt := range opts { opt(option) }: the bag after the three
\* OptionFuncs GetValidatorFromTag passes, applied in order.
ApplyOptions(min, max, p) == WithPattern(p, WithMax(max, WithMin(min, Option)))

\* A validator instance: its dynamic type and the fields that type keeps.
Instance(type, min, max, p) == [type |-> type, min |-> min, max |-> max, pattern |-> p]
NoValidator == Instance("nil", 0, 0, "")

newDefaultValidator(option) == Instance("DefaultValidator", 0, 0, "")
newStringValidator(option) == Instance("StringValidator", option.min, option.max, "")
newNumberValidator(option) == Instance("NumberValidator", option.min, option.max, "")
newEmailValidator(option) == Instance("EmailValidator", 0, 0, option.pattern)

\* The Validator interface leaves open what a variant registered by a client
\* returns: each of the four (bool, error) shapes is a variant of the model.
ExtError == Error("rejected by extension", <<>>, <<>>)
ExtConstructors == {"extPass", "extPassErr", "extFail", "extFailNil"}
BuiltinConstructors ==
    {"newDefaultValidator", "newNumberValidator", "newStringValidator", "newEmailValidator"}
Constructors == BuiltinConstructors \cup ExtConstructors

\* The constructors the model registers after init(): the clients' variants,
\* and a built-in one under a new name.
Registrable == ExtConstructors \cup {"newNumberValidator"}

\* Calling the constructor function ctor of the registry.
Construct(ctor, option) ==
    CASE ctor = "newDefaultValidator" -> newDefaultValidator(option)
      [] ctor = "newNumberValidator"  -> newNumberValidator(option)
      [] ctor = "newStringValidator"  -> newStringValidator(option)
      [] ctor = "newEmailValidator"   -> newEmailValidator(option)
      [] OTHER                        -> Instance(ctor, 0, 0, "")

\* What a Validate call does: return (valid, err), or panic.
Return(v, e) == [valid |-> v, err |-> e, panic |-> FALSE]
Panic == [valid |-> FALSE, err |-> nil, panic |-> TRUE]
NoOutcome == [valid |-> FALSE, err |-> nil, panic |-> FALSE]

DefaultValidate(d, val) == Return(TRUE, nil)

\* Mutant: the length check excludes the bounds themselves.
StringValidateExclusive(s, val) ==
    IF val.kind # "string"
    THEN Return(FALSE, Error("not of string type", <<>>, <<>>))
    ELSE LET strLen == Len(val.s)
         IN  IF strLen <= s.min \/ strLen >= s.max
             THEN Return(FALSE, Error("string length %d, allowed range [ %d,%d ]",
                                      <<>>, <<strLen, s.min, s.max>>))
             ELSE Return(TRUE, nil)

StringValidate(s, val) ==
    IF val.kind # "string"
    THEN Return(FALSE, Error("not of string type", <<>>, <<>>))
    ELSE LET strLen == Len(val.s)
         IN  IF strLen < s.min \/ strLen > s.max
             THEN Return(FALSE, Error("string length %d, allowed range [ %d,%d ]",
                                      <<>>, <<strLen, s.min, s.max>>))
             ELSE Return(TRUE, nil)

\* Mutant: the range check excludes the bounds themselves.
NumberValidateExclusive(n, val) ==
    IF val.kind # "int"
    THEN Return(FALSE, Error("not of int type", <<>>, <<>>))
    ELSE LET num == val.n
         IN  IF num <= n.min \/ num >= n.max
             THEN Return(FALSE, Error("interger %d, allowed range [ %d,%d]",
                                      <<>>, <<num, n.min, n.max>>))
             ELSE Return(TRUE, nil)

NumberValidate(n, val) ==
    IF val.kind # "int"
    THEN Return(FALSE, Error("not of int type", <<>>, <<>>))
    ELSE LET num == val.n
         IN  IF num < n.min \/ num > n.max
             THEN Return(FALSE, Error("interger %d, allowed range [ %d,%d]",
                                      <<>>, <<num, n.min, n.max>>))
             ELSE Return(TRUE, nil)

\* The character classes of the package's pattern.
WordSet == LowerSet \cup UpperSet \cup DigitSet \cup {"_"}
LocalSet == WordSet \cup {"+", "-", "."}
DomainSet == LowerSet \cup DigitSet \cup {"-"}

\* (\.[a-z]+)*\.[a-z]+ over the whole of t: one or more groups, each a dot
\* followed by one or more lowercase letters.
DotGroups(t) ==
    /\ Len(t) >= 2
    /\ t[1] = "."
    /\ t[Len(t)] \in LowerSet
    /\ \A k \in 1..Len(t) : t[k] \in LowerSet \cup {"."}
    /\ \A k \in 1..(Len(t) - 1) : ~(t[k] = "." /\ t[k + 1] = ".")

\* \A[\w+\-.]+@[a-z\d\-]+(\.[a-z]+)*\.[a-z]+\z matches s.
MatchDefaultPattern(s) ==
    \E at \in 2..Len(s) :
        /\ s[at] = "@"
        /\ \A k \in 1..(at - 1) : s[k] \in LocalSet
        /\ \E d \in (at + 1)..Len(s) :
               /\ \A k \in (at + 1)..d : s[k] \in DomainSet
               /\ DotGroups(SubSeq(s, d + 1, Len(s)))

\* regExp.MatchString(s) for the patterns a validator can hold: the package's
\* pattern, or the empty pattern of a zero Option, which matches every string.
MatchString(p, s) == IF p = pattern THEN MatchDefaultPattern(s) ELSE TRUE

\* email.(string) has no comma-ok form: on a value that is no string it panics.
EmailValidate(e, email) ==
    IF email.kind # "string" THEN Panic
    ELSE IF ~MatchString(e.pattern, email.s)
         THEN Return(FALSE, Error("not a valid email address", <<>>, <<>>))
         ELSE Return(TRUE, nil)

\* A variant registered by a client.
ExtValidate(x, val) ==
    CASE x.type = "extPass"    -> Return(TRUE, nil)
      [] x.type = "extPassErr" -> Return(TRUE, ExtError)
      [] x.type = "extFail"    -> Return(FALSE, ExtError)
      [] x.type = "extFailNil" -> Return(FALSE, nil)

\* validator.Validate(val): dispatch on the dynamic type.
Validate(validator, val) ==
    CASE validator.type = "DefaultValidator" -> DefaultValidate(validator, val)
      [] validator.type = "StringValidator"  -> StringValidate(validator, val)
      [] validator.type = "NumberValidator"  -> NumberValidate(validator, val)
      [] validator.type = "EmailValidator"   -> EmailValidate(validator, val)
      [] OTHER                               -> ExtValidate(validator, val)

-----------------------------------------------------------------------------
\* The registry after init().
NameDefault == <<"d", "e", "f", "a", "u", "l", "t">>
NameInt == <<"i", "n", "t">>
NameString == <<"s", "t", "r", "i", "n", "g">>
NameEmail == <<"e", "m", "a", "i", "l">>

init ==
    (NameDefault :> "newDefaultValidator") @@ (NameInt :> "newNumberValidator")
    @@ (NameString :> "newStringValidator") @@ (NameEmail :> "newEmailValidator")

\* Mutant: the error quotes the whole annotation instead of its first token.
UnknownRuleQuotesTag(args) == Error("validator for %s not present", Join(args, ","), <<>>)

\* fmt.Errorf("validator for %s not present", args[0])
UnknownRule(args) == Error("validator for %s not present", args[1], <<>>)

\* Mutant: the defaults are forgotten, min and max are always scanned.
BoundsAlwaysScanned(args) == Sscanf(Join(Tail(args), ","))

\* The values GetValidatorFromTag gives min and max: the defaults when the rule
\* name stands alone, otherwise what Sscanf stores from the re-joined rest.
Bounds(args) ==
    IF Len(args) = 1
    THEN [min |-> DefaultMinValue, max |-> DefaultMaxValue]
    ELSE Sscanf(Join(Tail(args), ","))

\* GetValidatorFromTag(tag) against the registry factory: the (validator, err)
\* it returns, and the number of registry lookups it made.
GetValidatorFromTag(factory, t) ==
    LET args == Split(t, ",")
    IN  IF Len(args) = 0
        THEN [validator |-> NoValidator, lookups |-> 0,
              err |-> Error("validator type not present", <<>>, <<>>)]
        ELSE IF args[1] \notin DOMAIN factory
        THEN [validator |-> NoValidator, lookups |-> 1, err |-> UnknownRule(args)]
        ELSE LET b == Bounds(args)
             IN  [validator |-> Construct(factory[args[1]],
                                          ApplyOptions(b.min, b.max, pattern)),
                  lookups |-> 1, err |-> nil]

-----------------------------------------------------------------------------
\* The inputs the model draws from.

\* strconv-style decimal text of an integer, as a tag's author writes it.
RECURSIVE FormatNat(_)
FormatNat(n) ==
    IF n < 10 THEN <<Digits[n + 1]>> ELSE FormatNat(n \div 10) \o <<Digits[(n % 10) + 1]>>
FormatInt(n) == IF n < 0 THEN <<"-">> \o FormatNat(0 - n) ELSE FormatNat(n)

\* A string of n characters.
Str(n) == [k \in 1..n |-> "a"]

NameBogus == <<"b", "o", "g", "u", "s">>
NameCustom == <<"c", "u", "s", "t", "o", "m">>
SkipTag == <<"_">>
MinEq == <<"m", "i", "n", "=">>
MaxEq == <<"m", "a", "x", "=">>

\* The clause `min=a,max=b` and the annotation `name,clause`.
Clause(a, b) == MinEq \o FormatInt(a) \o <<",">> \o MaxEq \o FormatInt(b)
Annotation(name, clause) == name \o <<",">> \o clause

\* The bounds written into clauses.
Args == (0 - MaxArg)..MaxArg \cup {10, 13, 18, 30}

\* Clauses that are not `min=<int>,max=<int>`.
MalformedClauses ==
    {MinEq \o <<"5">>,                                       \* min=5
     MaxEq \o <<"3", "0", ",">> \o MinEq \o <<"1", "8">>,    \* max=30,min=18
     MinEq \o <<"5", ",">> \o MaxEq \o <<"x">>,              \* min=5,max=x
     <<"f", "o", "o">>,                                      \* foo
     <<>>,                                                   \* (nothing after the comma)
     MinEq,                                                  \* min=
     MinEq \o <<"x">>,                                       \* min=x
     MinEq \o <<"-">>,                                       \* min=-
     MinEq \o <<"5", "_">>,                                  \* min=5_
     MinEq \o <<"7", ",">>,                                  \* min=7,
     MinEq \o <<"7", ",">> \o MaxEq,                         \* min=7,max=
     MinEq \o <<"1", ";">> \o MaxEq \o <<"5">>,              \* min=1;max=5
     Clause(1, 5) \o <<",", "x">>,                           \* min=1,max=5,x
     Clause(2, 9) \o <<"k">>,                                \* min=2,max=9k
     MaxEq \o <<"7">>}                                       \* max=7

RuleNames == {NameDefault, NameInt, NameString, NameEmail}

Tags ==
    {<<>>, SkipTag, NameBogus, NameCustom} \cup RuleNames
    \cup {Annotation(n, Clause(a, b)) : n \in {NameInt, NameString}, a \in Args, b \in Args}
    \cup {Annotation(n, Clause(18, 30)) : n \in {NameBogus, NameCustom, NameEmail, NameDefault, SkipTag}}
    \cup {Annotation(n, c) : n \in {NameInt, NameString, NameBogus}, c \in MalformedClauses}

Oshank == <<"o", "s", "h", "a", "n", "k">>
OshankEmail ==
    <<"o", "s", "h", "a", "n", "k", "f", "r", "i", "e", "n", "d", "s", "@",
      "g", "m", "a", "i", "l", ".", "c", "o", "m">>
ContactNo == <<"7", "0", "6", "5", "3", "4", "9", "3", "5", "4">>
GoodEmail ==
    <<"a", ".", "b", "-", "c", "+", "d", "@", "s", "u", "b", "-", "d", "o", "m",
      "a", "i", "n", ".", "e", "x", "a", "m", "p", "l", "e", ".", "c", "o", "m">>
NotAnEmail == <<"n", "o", "t", "-", "a", "n", "-", "e", "m", "a", "i", "l">>
MissingDomain == <<"m", "i", "s", "s", "i", "n", "g", "@", "d", "o", "m", "a", "i", "n">>
NoLocalPart == <<"@", "n", "o", "d", "o", "m", "a", "i", "n", ".", "c", "o", "m">>

IntValues ==
    {IntValue(n) : n \in (0 - MaxArg - 1)..(MaxArg + 1)
                         \cup {9, 10, 11, 12, 13, 14, 17, 18, 19, 29, 30, 31, 85}
                         \cup {DefaultMinValue - 1, DefaultMinValue,
                               DefaultMaxValue, DefaultMaxValue + 1}}
StringValues ==
    {StringValue(Str(n)) : n \in 0..(MaxArg + 1)
                                 \cup {9, 10, 11, 13, 14, DefaultMaxValue, DefaultMaxValue + 1}}
    \cup {StringValue(s) : s \in {Oshank, OshankEmail, ContactNo, GoodEmail,
                                  NotAnEmail, MissingDomain, NoLocalPart}}
Values == IntValues \cup StringValues

Field(t, v) == [tag |-> t, value |-> v]

\* The record main() validates: type User with its four annotations.
MainUser ==
    << Field(NameString, StringValue(Oshank)),
       Field(NameEmail, StringValue(OshankEmail)),
       Field(Annotation(NameInt, Clause(18, 30)), IntValue(85)),
       Field(Annotation(NameString, Clause(10, 13)), StringValue(ContactNo)) >>

\* Fields of the other records.
FieldPool ==
    { Field(<<>>, IntValue(5)),
      Field(SkipTag, StringValue(NotAnEmail)),
      Field(NameBogus, IntValue(1)),
      Field(Annotation(SkipTag, <<"x">>), IntValue(1)),
      Field(Annotation(NameBogus, Clause(18, 30)), IntValue(20)),
      Field(NameInt, StringValue(Oshank)),
      Field(NameInt, IntValue(7)),
      Field(NameString, IntValue(5)),
      Field(NameEmail, IntValue(5)),
      Field(NameEmail, StringValue(NotAnEmail)),
      Field(NameEmail, StringValue(GoodEmail)),
      Field(NameCustom, IntValue(1)),
      Field(NameDefault, IntValue(1)),
      Field(Annotation(NameInt, MinEq \o <<"5">>), IntValue(3)),
      Field(Annotation(NameInt, Clause(18, 30)), IntValue(31)),
      Field(Annotation(NameString, Clause(10, 13)), StringValue(Str(9))) }

Users ==
    {MainUser} \cup UNION {[1..n -> FieldPool] : n \in 0..MaxFields}

-----------------------------------------------------------------------------
\* The state machine.

Init ==
    /\ ValidatorFactory = init
    /\ pc = "start"
    /\ i = 0
    /\ errs = <<>>
    /\ valid = FALSE
    /\ err = nil
    /\ lookups = 0
    /\ calls = 0
    /\ result = [validator |-> NoValidator, lookups |-> 0, err |-> nil]
    /\ outcome = NoOutcome
    /\ \/ /\ call = "ValidateUser"
          /\ user \in Users
          /\ tag = <<>>
          /\ value = IntValue(0)
       \/ /\ call = "GetValidatorFromTag"
          /\ user = <<>>
          /\ tag \in Tags
          /\ value = IntValue(0)

\* ValidatorFactory[name] = ctor: a client registers a variant at start-up;
\* registering a name again overwrites its constructor.
Register(name, ctor) ==
    /\ pc = "start"
    /\ ValidatorFactory' = (name :> ctor) @@ ValidatorFactory
    /\ UNCHANGED <<call, pc, user, i, errs, valid, err, lookups, calls,
                   tag, value, result, outcome>>

\* Mutant: only the absent annotation is skipped, the sentinel `_` is resolved.
IsSkippedOnlyEmpty(t) == t = <<>>

\* tag == "" || tag == "_"
IsSkipped(t) == t = <<>> \/ t = SkipTag

\* err != nil && !valid: whether the diagnostic of a Validate call is appended.
Appends(v, e) == e # nil /\ ~v

\* ValidateUser is entered: errs := make([]error, 0); i := 0.
EnterValidateUser ==
    /\ call = "ValidateUser"
    /\ pc = "start"
    /\ pc' = "loop"
    /\ i' = 1
    /\ errs' = <<>>
    /\ UNCHANGED <<ValidatorFactory, call, user, valid, err, lookups, calls,
                   tag, value, result, outcome>>

\* An iteration on a field without annotation or with the annotation `_`: continue.
SkipField ==
    /\ pc = "loop"
    /\ i <= Len(user)
    /\ IsSkipped(user[i].tag)
    /\ i' = i + 1
    /\ UNCHANGED <<ValidatorFactory, call, pc, user, errs, valid, err, lookups,
                   calls, tag, value, result, outcome>>

\* An iteration whose GetValidatorFromTag fails: the error is appended; continue.
ResolveFails ==
    /\ pc = "loop"
    /\ i <= Len(user)
    /\ ~IsSkipped(user[i].tag)
    /\ LET r == GetValidatorFromTag(ValidatorFactory, user[i].tag)
       IN  /\ r.err # nil
           /\ err' = r.err
           /\ errs' = Append(errs, r.err)
           /\ lookups' = lookups + r.lookups
    /\ i' = i + 1
    /\ UNCHANGED <<ValidatorFactory, call, pc, user, valid, calls,
                   tag, value, result, outcome>>

\* An iteration that resolves a validator and calls Validate on the field's
\* value; the diagnostic is appended when err != nil && !valid.
ValidateField ==
    /\ pc = "loop"
    /\ i <= Len(user)
    /\ ~IsSkipped(user[i].tag)
    /\ LET r == GetValidatorFromTag(ValidatorFactory, user[i].tag)
           o == Validate(r.validator, user[i].value)
       IN  /\ r.err = nil
           /\ ~o.panic
           /\ valid' = o.valid
           /\ err' = o.err
           /\ errs' = IF Appends(o.valid, o.err) THEN Append(errs, o.err) ELSE errs
           /\ lookups' = lookups + r.lookups
    /\ calls' = calls + 1
    /\ i' = i + 1
    /\ UNCHANGED <<ValidatorFactory, call, pc, user, tag, value, result, outcome>>

\* An iteration whose Validate call panics: ValidateUser does not recover, the
\* panic unwinds it and no error list is returned.
ValidatePanics ==
    /\ pc = "loop"
    /\ i <= Len(user)
    /\ ~IsSkipped(user[i].tag)
    /\ LET r == GetValidatorFromTag(ValidatorFactory, user[i].tag)
       IN  /\ r.err = nil
           /\ Validate(r.validator, user[i].value).panic
           /\ lookups' = lookups + r.lookups
    /\ calls' = calls + 1
    /\ pc' = "panicked"
    /\ UNCHANGED <<ValidatorFactory, call, user, i, errs, valid, err,
                   tag, value, result, outcome>>

\* i reached val.NumField(): return errs.
ReturnErrs ==
    /\ pc = "loop"
    /\ i > Len(user)
    /\ pc' = "returned"
    /\ UNCHANGED <<ValidatorFactory, call, user, i, errs, valid, err, lookups,
                   calls, tag, value, result, outcome>>

\* A client calls GetValidatorFromTag(tag) itself.
Resolve ==
    /\ call = "GetValidatorFromTag"
    /\ pc = "start"
    /\ result' = GetValidatorFromTag(ValidatorFactory, tag)
    /\ lookups' = lookups + result'.lookups
    /\ pc' = "resolved"
    /\ UNCHANGED <<ValidatorFactory, call, user, i, errs, valid, err, calls,
                   tag, value, outcome>>

\* The client calls Validate(v) on the validator it obtained.
CallValidate(v) ==
    /\ pc = "resolved"
    /\ result.err = nil
    /\ value' = v
    /\ outcome' = Validate(result.validator, v)
    /\ calls' = calls + 1
    /\ pc' = IF outcome'.panic THEN "panicked" ELSE "validated"
    /\ UNCHANGED <<ValidatorFactory, call, user, i, errs, valid, err, lookups,
                   tag, result>>

Next ==
    \/ \E ctor \in Registrable : Register(NameCustom, ctor)
    \/ EnterValidateUser
    \/ SkipField
    \/ ResolveFails
    \/ ValidateField
    \/ ValidatePanics
    \/ ReturnErrs
    \/ Resolve
    \/ \E v \in Values : CallValidate(v)

Spec == Init /\ [][Next]_vars

-----------------------------------------------------------------------------
\* Properties.

\* The kind of value a built-in variant requires (none for the default one).
RequiredKind(type) ==
    CASE type = "NumberValidator" -> "int"
      [] type \in {"StringValidator", "EmailValidator"} -> "string"
      [] OTHER -> "any"

Mismatch(validator, val) ==
    /\ validator.type \in {"NumberValidator", "StringValidator", "EmailValidator"}
    /\ val.kind # RequiredKind(validator.type)

\* C1: a built-in variant given a value of another kind than it requires
\* returns (false, non-nil error) and does not panic; ValidateUser on a record
\* with such a field returns normally.
C1_TypeMismatchIsDiagnosed ==
    /\ (call = "GetValidatorFromTag" /\ pc \in {"validated", "panicked"}
        /\ Mismatch(result.validator, value))
       => (~outcome.panic /\ ~outcome.valid /\ outcome.err # nil)
    /\ call = "ValidateUser" => pc # "panicked"

\* The fields of a record that are evaluated, and what each must contribute.
Annotated(t) == t # <<>> /\ t # <<"_">>

FieldDiagnostics(factory, f) ==
    IF ~Annotated(f.tag) THEN <<>>
    ELSE LET r == GetValidatorFromTag(factory, f.tag)
         IN  IF r.err # nil THEN <<r.err>>
             ELSE LET o == Validate(r.validator, f.value)
                  IN  IF ~o.valid THEN <<o.err>> ELSE <<>>

RECURSIVE RecordDiagnostics(_, _)
RecordDiagnostics(factory, u) ==
    IF Len(u) = 0 THEN <<>>
    ELSE FieldDiagnostics(factory, Head(u)) \o RecordDiagnostics(factory, Tail(u))

OnlyBuiltinRules == \A n \in DOMAIN ValidatorFactory : ValidatorFactory[n] \in BuiltinConstructors

\* C2: with the built-in rules, ValidateUser returns, for every record, exactly
\* the diagnostics of the fields that fail to resolve or fail their rule, in
\* field order; a failing field never keeps the later fields from being evaluated.
C2_OneDiagnosticPerFailingField ==
    (call = "ValidateUser" /\ OnlyBuiltinRules)
    => /\ pc # "panicked"
       /\ pc = "returned" => errs = RecordDiagnostics(ValidatorFactory, user)

\* C3: an iteration on a field without annotation, or annotated `_`, makes no
\* registry lookup, invokes no validator and appends no diagnostic; a record
\* without any annotated field yields the empty error list.
C3_SkippedFieldsAreNotEvaluated ==
    /\ [][(pc = "loop" /\ i <= Len(user) /\ ~Annotated(user[i].tag))
          => (errs' = errs /\ lookups' = lookups /\ calls' = calls /\ pc' = "loop")]_vars
    /\ []((pc = "returned" /\ \A k \in 1..Len(user) : ~Annotated(user[k].tag))
          => (errs = <<>> /\ lookups = 0 /\ calls = 0))

C3_Witness ==
    /\ pc = "returned"
    /\ Len(user) = 2
    /\ user[1].tag = <<"_">>
    /\ user[2].tag = <<>>
    /\ errs = <<>>

\* C4: a validator resolved from `int,min=a,max=b` with a <= b passes an
\* integer v exactly when a <= v <= b, and its diagnostic echoes v, a and b.
C4_IntRangeIsInclusive ==
    \A a \in Args, b \in Args :
        (/\ pc = "validated"
         /\ a <= b
         /\ tag = Annotation(NameInt, Clause(a, b))
         /\ value.kind = "int")
        => /\ outcome.valid <=> (a <= value.n /\ value.n <= b)
           /\ ~outcome.valid => (outcome.err # nil /\ outcome.err.args = <<value.n, a, b>>)

C4_Witness ==
    /\ pc = "validated"
    /\ tag = Annotation(NameInt, Clause(18, 30))
    /\ value = IntValue(17)
    /\ ~outcome.valid
    /\ outcome.err.args = <<17, 18, 30>>

\* The annotations `name,clause` whose name is registered and whose clause is
\* not a well-formed `min=<int>,max=<int>`.
MalformedTag(c) ==
    /\ c \in MalformedClauses
    /\ \E n \in DOMAIN ValidatorFactory :
           /\ tag = Annotation(n, c)
           /\ ValidatorFactory[n] \in {"newNumberValidator", "newStringValidator"}

\* C5 as stated: a registered rule name followed by a malformed clause
\* resolves without error to a validator with min = 0 and max = 0.
C5_MalformedClauseLeavesZero ==
    \A c \in MalformedClauses :
        (pc = "resolved" /\ MalformedTag(c))
        => (result.err = nil /\ result.validator.min = 0 /\ result.validator.max = 0)

\* Whether clause c begins with text p, and whether a number ends before c[k].
StartsWith(c, p) == Len(c) >= Len(p) /\ SubSeq(c, 1, Len(p)) = p
NumberEnds(c, k) == k > Len(c) \/ c[k] \notin DigitSet \cup {"_"}
BeginsMin(c, a) ==
    LET p == MinEq \o FormatInt(a) IN StartsWith(c, p) /\ NumberEnds(c, Len(p) + 1)
BeginsMinMax(c, a, b) ==
    LET p == Clause(a, b) IN StartsWith(c, p) /\ NumberEnds(c, Len(p) + 1)
Literals == (0 - 30)..30

\* C5 as amended: such an annotation resolves without error; min is a when the
\* clause begins with `min=a` and 0 otherwise; max is b when the clause begins
\* with `min=a,max=b` and 0 otherwise.
C5_MalformedClauseKeepsScannedPrefix ==
    \A c \in MalformedClauses :
        (pc = "resolved" /\ MalformedTag(c))
        => /\ result.err = nil
           /\ \A a \in Literals : BeginsMin(c, a) => result.validator.min = a
           /\ (\A a \in Literals : ~BeginsMin(c, a)) => result.validator.min = 0
           /\ \A a, b \in Literals : BeginsMinMax(c, a, b) => result.validator.max = b
           /\ (\A a, b \in Literals : ~BeginsMinMax(c, a, b)) => result.validator.max = 0

C5_Witness ==
    /\ pc = "resolved"
    /\ tag = Annotation(NameInt, MinEq \o <<"5">>)
    /\ result.err = nil
    /\ result.validator.min = 5
    /\ result.validator.max = 0

\* C6: GetValidatorFromTag on the empty annotation fails with "validator type
\* not present" and returns no validator.
C6_EmptyTagIsMissingRuleName ==
    (pc = "resolved" /\ tag = <<>>)
    => /\ result.validator = NoValidator
       /\ result.err = Error("validator type not present", <<>>, <<>>)

\* The first comma-separated token of an annotation.
FirstToken(t) ==
    IF \E k \in 1..Len(t) : t[k] = ","
    THEN SubSeq(t, 1, (CHOOSE k \in 1..Len(t) :
                           t[k] = "," /\ \A j \in 1..(k - 1) : t[j] # ",") - 1)
    ELSE t

Unregistered(t) == FirstToken(t) \notin DOMAIN ValidatorFactory

UnknownRuleError(t) == Error("validator for %s not present", FirstToken(t), <<>>)

ResolverRejectsUnregistered ==
    (pc = "resolved" /\ Unregistered(tag))
    => (result.validator = NoValidator /\ result.err = UnknownRuleError(tag))

\* C7 as stated: an annotation whose first token is not a registry key makes
\* GetValidatorFromTag return no validator and the error naming that token, and
\* a field carrying it contributes exactly one diagnostic.
C7_UnregisteredGivesOneDiagnostic ==
    /\ []ResolverRejectsUnregistered
    /\ [][(pc = "loop" /\ i <= Len(user) /\ user[i].tag # <<>>
           /\ Unregistered(user[i].tag))
          => (pc' = "loop" /\ errs' = Append(errs, UnknownRuleError(user[i].tag)))]_vars

\* C7 as amended: the same, for the annotations other than the skip sentinel
\* `_` (a field annotated `_` contributes no diagnostic).
C7_UnregisteredUnskippedGivesOneDiagnostic ==
    /\ []ResolverRejectsUnregistered
    /\ [][(pc = "loop" /\ i <= Len(user) /\ user[i].tag # <<>>
           /\ user[i].tag # <<"_">> /\ Unregistered(user[i].tag))
          => (pc' = "loop" /\ errs' = Append(errs, UnknownRuleError(user[i].tag)))]_vars

C7_Witness ==
    /\ pc = "loop"
    /\ i = 2
    /\ user[1].tag = Annotation(NameBogus, Clause(18, 30))
    /\ NameCustom \in DOMAIN ValidatorFactory
    /\ errs = <<Error("validator for %s not present", NameBogus, <<>>)>>

\* C8: ValidateUser on the record of main returns exactly one error, the
\* out-of-range diagnostic of Age (85 outside [18,30]).
C8_MainRecordHasOneError ==
    (call = "ValidateUser" /\ user = MainUser)
    => /\ pc # "panicked"
       /\ pc = "returned"
          => errs = <<Error("interger %d, allowed range [ %d,%d]", <<>>, <<85, 18, 30>>)>>

C8_Witness ==
    /\ pc = "returned"
    /\ user = MainUser
    /\ Len(errs) = 1
    /\ calls = 4

\* C9: a registered rule name standing alone is constructed with min = -128,
\* max = 127 and the package's pattern: `int` passes v exactly when
\* -128 <= v <= 127 and `string` passes a string exactly when its length is at
\* most 127.
C9_DefaultBounds ==
    (call = "GetValidatorFromTag" /\ pc \in {"resolved", "validated"}
     /\ tag \in DOMAIN ValidatorFactory)
    => /\ result.err = nil
       /\ result.validator.type \in {"NumberValidator", "StringValidator"}
          => (result.validator.min = 0 - 128 /\ result.validator.max = 127)
       /\ result.validator.type = "EmailValidator"
          => result.validator.pattern = "\\A[\\w+\\-.]+@[a-z\\d\\-]+(\\.[a-z]+)*\\.[a-z]+\\z"
       /\ (pc = "validated" /\ tag = NameInt /\ value.kind = "int")
          => (outcome.valid <=> (0 - 128 <= value.n /\ value.n <= 127))
       /\ (pc = "validated" /\ tag = NameString /\ value.kind = "string")
          => (outcome.valid <=> Len(value.s) <= 127)

C9_Witness ==
    /\ pc = "validated"
    /\ tag = NameString
    /\ value.kind = "string"
    /\ Len(value.s) = 128
    /\ ~outcome.valid
    /\ result.validator.max = 127

\* C10: whenever the Validate call of an iteration reports failure, the
\* iteration appends a diagnostic, whatever variant the registry holds.
C10_EveryFailureIsReported ==
    [][(call = "ValidateUser" /\ calls' = calls + 1 /\ pc' = "loop" /\ ~valid')
       => Len(errs') = Len(errs) + 1]_vars

====
